---- MODULE Spec2Model ----
(***************************************************************************)
(* Model of the smart-search backend (backend/main.go) and of the part of  *)
(* the React front end that calls it (SearchFrontend.js).                  *)
(*                                                                         *)
(* A request goes through SearchHandler.handleSearch: the request body is  *)
(* decoded, analyzePromptWithOpenAI sends the prompt to the model and      *)
(* parses its reply into a SearchIntent, constructSearchQuery renders the  *)
(* intent into a search URL, and the URL and the intent are sent back.     *)
(*                                                                         *)
(* Text is a sequence of one-character strings.  JSON text is modelled at  *)
(* the level of its tokens: a JSON value is a record [type, val].          *)
(***************************************************************************)
EXTENDS Naturals, Sequences, FiniteSets, TLC

\* ------------------------------------------------------------------------
\* Optional values: a nil pointer is the empty sequence, a pointer to x is <<x>>.
Nil == <<>>

Ptr(x) == <<x>>

Deref(p) == p[1]

\* ------------------------------------------------------------------------
\* Text helpers.

\* strings.Join(parts, sep)
RECURSIVE Join(_, _)
Join(parts, sep) ==
    IF Len(parts) = 0 THEN <<>>
    ELSE IF Len(parts) = 1 THEN parts[1]
    ELSE parts[1] \o sep \o Join(Tail(parts), sep)

\* The concatenation of a sequence of sequences.
RECURSIVE Flatten(_)
Flatten(ss) == IF Len(ss) = 0 THEN <<>> ELSE Head(ss) \o Flatten(Tail(ss))

\* White space as strings.TrimSpace and String.prototype.trim see it.
IsSpace(c) == c \in {" ", "\n", "\t"}

RECURSIVE TrimLeft(_)
TrimLeft(s) ==
    IF Len(s) > 0 /\ IsSpace(Head(s)) THEN TrimLeft(Tail(s)) ELSE s

RECURSIVE TrimRight(_)
TrimRight(s) ==
    IF Len(s) > 0 /\ IsSpace(s[Len(s)]) THEN TrimRight(SubSeq(s, 1, Len(s) - 1)) ELSE s

\* prompt.trim() of the front end
Trim(s) == TrimRight(TrimLeft(s))

\* ------------------------------------------------------------------------
\* JSON values.
JNull == [type |-> "null", val |-> <<>>]

JNum == [type |-> "number", val |-> <<>>]

JStr(s) == [type |-> "string", val |-> s]

JArr(es) == [type |-> "array", val |-> es]

JObj(members) == [type |-> "object", val |-> members]

\* A token of a reply's content: white space, text that is not JSON, or one
\* complete JSON value.
WS == [type |-> "ws", val |-> JNull]

Text == [type |-> "text", val |-> JNull]

Json(v) == [type |-> "json", val |-> v]

RECURSIVE TrimLeftTokens(_)
TrimLeftTokens(s) ==
    IF Len(s) > 0 /\ Head(s).type = "ws" THEN TrimLeftTokens(Tail(s)) ELSE s

RECURSIVE TrimRightTokens(_)
TrimRightTokens(s) ==
    IF Len(s) > 0 /\ s[Len(s)].type = "ws"
    THEN TrimRightTokens(SubSeq(s, 1, Len(s) - 1)) ELSE s

\* strings.TrimSpace on the content of a reply
TrimSpace(content) == TrimRightTokens(TrimLeftTokens(content))

\* ------------------------------------------------------------------------
\* SearchIntent.  A Go slice is nil or holds its elements.
NilSlice == [isNil |-> TRUE, elems |-> <<>>]

Slice(es) == [isNil |-> FALSE, elems |-> es]

\* The zero value of SearchIntent (var intent SearchIntent)
ZeroIntent ==
    [MainQuery |-> <<>>, ExactPhrases |-> NilSlice, SiteFilter |-> <<>>,
     FileType |-> <<>>, ExcludeWords |-> NilSlice, DateRange |-> <<>>]

StringKeys == {"main_query", "site_filter", "file_type", "date_range"}

ListKeys == {"exact_phrases", "exclude_words"}

\* The JSON key of each field of SearchIntent (its struct tags)
IntentKeys == StringKeys \cup ListKeys

\* ------------------------------------------------------------------------
\* encoding/json decoding into SearchIntent.

\* Decoding a JSON value into a string field: a string sets it, null leaves it
\* alone, anything else is a type error that leaves it alone.
StringFieldError(v) == v.type \notin {"string", "null"}

DecodeString(v, old) == IF v.type = "string" THEN v.val ELSE old

\* An element of a []string: a string, or null (which leaves the zero value "").
ElemError(e) == e.type \notin {"string", "null"}

DecodeElem(e) == IF e.type = "string" THEN e.val ELSE <<>>

ListFieldError(v) ==
    \/ v.type \notin {"array", "null"}
    \/ v.type = "array" /\ \E i \in 1..Len(v.val) : ElemError(v.val[i])

\* Decoding a JSON value into a []string field: an array makes a non-nil slice,
\* null makes the nil slice, anything else is a type error.
DecodeList(v, old) ==
    IF v.type = "array"
    THEN Slice([i \in 1..Len(v.val) |-> DecodeElem(v.val[i])])
    ELSE IF v.type = "null" THEN NilSlice
    ELSE old

Member(obj, key, default) == IF key \in DOMAIN obj THEN obj[key] ELSE default

\* json.Unmarshal of one JSON value into a SearchIntent: [err, intent].  An
\* object sets the fields whose keys it has and ignores its other keys; null
\* has no effect and is no error; any other value is a type error.  A type
\* error does not stop the decoding of the fields that follow it.
UnmarshalValue(v) ==
    IF v.type = "null" THEN [err |-> FALSE, intent |-> ZeroIntent]
    ELSE IF v.type # "object" THEN [err |-> TRUE, intent |-> ZeroIntent]
    ELSE LET o == v.val
             str(k) == DecodeString(Member(o, k, JNull), <<>>)
             lst(k) == DecodeList(Member(o, k, JNull), NilSlice)
         IN [err |-> \/ \E k \in StringKeys \cap DOMAIN o : StringFieldError(o[k])
                     \/ \E k \in ListKeys \cap DOMAIN o : ListFieldError(o[k]),
             intent |-> [MainQuery |-> str("main_query"),
                         ExactPhrases |-> lst("exact_phrases"),
                         SiteFilter |-> str("site_filter"),
                         FileType |-> str("file_type"),
                         ExcludeWords |-> lst("exclude_words"),
                         DateRange |-> str("date_range")]]

UnmarshalIntentLax(content) ==
    LET js == SelectSeq(content, LAMBDA t : t.type = "json")
    IN IF Len(js) = 0 THEN [err |-> TRUE, intent |-> ZeroIntent]
       ELSE UnmarshalValue(js[1].val)

\* json.Unmarshal([]byte(content), &intent): the text must be exactly one JSON
\* value (white space around it is allowed); otherwise it is a syntax error
\* and nothing is decoded.
UnmarshalIntent(content) ==
    LET t == TrimSpace(content)
    IN IF Len(t) = 1 /\ t[1].type = "json"
       THEN UnmarshalValue(t[1].val)
       ELSE [err |-> TRUE, intent |-> ZeroIntent]

\* "Initialize empty slices if they're nil"
Normalize(intent) ==
    [intent EXCEPT
        !.ExactPhrases = IF @.isNil THEN Slice(<<>>) ELSE @,
        !.ExcludeWords = IF @.isNil THEN Slice(<<>>) ELSE @]

\* ------------------------------------------------------------------------
\* Errors: the message of the fmt.Errorf that made the error, the provider's
\* message (%s of "OpenAI API error: %s") and the reply content (%s of
\* "error parsing intent JSON: %v\nContent: %s"), each empty where unused.
NoError == [msg |-> "", provider |-> <<>>, content |-> <<>>]

Errorf(msg) == [msg |-> msg, provider |-> <<>>, content |-> <<>>]

\* (*SearchIntent, error) as analyzePromptWithOpenAI returns it
Failed(err) == [intent |-> Nil, err |-> err]

Succeeded(intent) == [intent |-> Ptr(intent), err |-> NoError]

\* ------------------------------------------------------------------------
\* OpenAIResponse.  A response body either does not decode into the struct
\* (valid = FALSE: not JSON, or JSON of another shape) or decodes to its Error
\* (nil or a message) and its Choices (the content of each choice).
BadBody == [valid |-> FALSE, error |-> Nil, choices |-> <<>>]

ErrorBody(message) == [valid |-> TRUE, error |-> Ptr(message), choices |-> <<>>]

ChoicesBody(contents) == [valid |-> TRUE, error |-> Nil, choices |-> contents]

\* main.go 139-154: parse the content of the first choice into a SearchIntent
ParseIntent(content) ==
    LET u == UnmarshalIntent(content)
    IN IF u.err
       THEN Failed([msg |-> "error parsing intent JSON", provider |-> <<>>,
                    content |-> content])
       ELSE Succeeded(Normalize(u.intent))

ParseResponseNoErrorCheck(body) ==
    IF ~body.valid THEN Failed(Errorf("error parsing OpenAI response"))
    ELSE IF Len(body.choices) = 0
    THEN Failed(Errorf("no response choices from OpenAI"))
    ELSE ParseIntent(TrimSpace(body.choices[1]))

\* main.go 126-154: what analyzePromptWithOpenAI makes of a response body
ParseResponse(body) ==
    IF ~body.valid THEN Failed(Errorf("error parsing OpenAI response"))
    ELSE IF body.error # Nil
    THEN Failed([msg |-> "OpenAI API error", provider |-> Deref(body.error),
                 content |-> <<>>])
    ELSE IF Len(body.choices) = 0
    THEN Failed(Errorf("no response choices from OpenAI"))
    ELSE ParseIntent(TrimSpace(body.choices[1]))

\* ------------------------------------------------------------------------
\* constructSearchQuery.
Quote == "\""

PhraseClausesKeepEmpty(phrases) ==
    [i \in 1..Len(phrases) |-> <<Quote>> \o phrases[i] \o <<Quote>>]

\* main.go 164-168: one "<phrase>" clause for each non-empty phrase
RECURSIVE PhraseClauses(_)
PhraseClauses(phrases) ==
    IF Len(phrases) = 0 THEN <<>>
    ELSE (IF Head(phrases) # <<>>
          THEN << <<Quote>> \o Head(phrases) \o <<Quote>> >>
          ELSE <<>>) \o PhraseClauses(Tail(phrases))

\* main.go 178-182: one -<word> clause for each non-empty word
RECURSIVE ExcludeClauses(_)
ExcludeClauses(words) ==
    IF Len(words) = 0 THEN <<>>
    ELSE (IF Head(words) # <<>> THEN << <<"-">> \o Head(words) >> ELSE <<>>)
         \o ExcludeClauses(Tail(words))

SiteClause(site) ==
    IF site # <<>> THEN << <<"s", "i", "t", "e", ":">> \o site >> ELSE <<>>

FileTypeClause(ft) ==
    IF ft # <<>>
    THEN << <<"f", "i", "l", "e", "t", "y", "p", "e", ":">> \o ft >> ELSE <<>>

DateClause(d) ==
    IF d # <<>> THEN << <<"a", "f", "t", "e", "r", ":">> \o d >> ELSE <<>>

QueryPartsFileTypeFirst(intent) ==
    (IF intent.MainQuery # <<>> THEN <<intent.MainQuery>> ELSE <<>>)
    \o PhraseClauses(intent.ExactPhrases.elems)
    \o FileTypeClause(intent.FileType)
    \o SiteClause(intent.SiteFilter)
    \o ExcludeClauses(intent.ExcludeWords.elems)
    \o DateClause(intent.DateRange)

\* main.go 158-186: queryParts, the clauses in the order they are appended
QueryParts(intent) ==
    (IF intent.MainQuery # <<>> THEN <<intent.MainQuery>> ELSE <<>>)
    \o PhraseClauses(intent.ExactPhrases.elems)
    \o SiteClause(intent.SiteFilter)
    \o FileTypeClause(intent.FileType)
    \o ExcludeClauses(intent.ExcludeWords.elems)
    \o DateClause(intent.DateRange)

\* Characters url.QueryEscape leaves as they are
Unreserved ==
    {"a", "b", "c", "d", "e", "f", "g", "h", "i", "j", "k", "l", "m", "n", "o",
     "p", "q", "r", "s", "t", "u", "v", "w", "x", "y", "z",
     "0", "1", "2", "3", "4", "5", "6", "7", "8", "9", "-", "_", ".", "~"}

\* The two upper-case hexadecimal digits of the other characters of the model
HexCode(c) ==
    CASE c = Quote -> <<"2", "2">>
      [] c = "%" -> <<"2", "5">>
      [] c = "&" -> <<"2", "6">>
      [] c = "+" -> <<"2", "B">>
      [] c = ":" -> <<"3", "A">>
      [] c = "=" -> <<"3", "D">>

\* url.QueryEscape of one character: a space becomes +, an unreserved
\* character stays, any other becomes %XX
EscapeChar(c) ==
    IF c = " " THEN <<"+">>
    ELSE IF c \in Unreserved THEN <<c>>
    ELSE <<"%">> \o HexCode(c)

\* url.QueryEscape
QueryEscape(s) == Flatten([i \in 1..Len(s) |-> EscapeChar(s[i])])

\* The base URL, kept as one element of the URL's text
BaseURL == <<"https://www.google.com/search">>

\* main.go 188-192: params.Add("q", ...); baseURL + "?" + params.Encode()
SearchURL(parts) ==
    BaseURL \o <<"?">> \o QueryEscape(<<"q">>) \o <<"=">>
    \o QueryEscape(Join(parts, <<" ">>))

constructSearchQuery(intent) == SearchURL(QueryParts(intent))

\* ------------------------------------------------------------------------
\* The response of handleSearch.

EncodeStrings(slice) ==
    IF slice.isNil THEN JNull
    ELSE JArr([i \in 1..Len(slice.elems) |-> JStr(slice.elems[i])])

\* The value json encodes for the field with this key
FieldValue(intent, k) ==
    CASE k = "main_query" -> JStr(intent.MainQuery)
      [] k = "exact_phrases" -> EncodeStrings(intent.ExactPhrases)
      [] k = "site_filter" -> JStr(intent.SiteFilter)
      [] k = "file_type" -> JStr(intent.FileType)
      [] k = "exclude_words" -> EncodeStrings(intent.ExcludeWords)
      [] k = "date_range" -> JStr(intent.DateRange)

\* omitempty: a string of length 0 and a slice of length 0 (nil or not) are empty
IsEmptyValue(intent, k) ==
    CASE k = "main_query" -> Len(intent.MainQuery) = 0
      [] k = "exact_phrases" -> Len(intent.ExactPhrases.elems) = 0
      [] k = "site_filter" -> Len(intent.SiteFilter) = 0
      [] k = "file_type" -> Len(intent.FileType) = 0
      [] k = "exclude_words" -> Len(intent.ExcludeWords.elems) = 0
      [] k = "date_range" -> Len(intent.DateRange) = 0

\* The fields of SearchIntent tagged omitempty (main.go 21-26)
OmitEmpty == IntentKeys \ {"main_query"}

\* json encoding of a SearchIntent as the response carries it
EncodeIntent(intent) ==
    JObj([k \in {k \in IntentKeys : k \notin OmitEmpty \/ ~IsEmptyValue(intent, k)}
            |-> FieldValue(intent, k)])

\* A response of handleSearch as the client receives it: the status, the text
\* of an http.Error with the error it wraps, and the two members of the JSON
\* body of a success.
HttpError(status, msg, cause) ==
    [status |-> status, msg |-> msg, cause |-> cause,
     search_url |-> Nil, intent |-> Nil]

HttpOK(url, intent) ==
    [status |-> 200, msg |-> "", cause |-> NoError,
     search_url |-> Ptr(url), intent |-> Ptr(EncodeIntent(intent))]

\* w.WriteHeader(http.StatusOK) for OPTIONS: no body
HttpEmpty ==
    [status |-> 200, msg |-> "", cause |-> NoError,
     search_url |-> Nil, intent |-> Nil]

\* ------------------------------------------------------------------------
\* The inputs of the model.

\* The requests in flight at once
Reqs == {"r1", "r2"}

\* What the user typed or a client sent as the prompt
Prompts == {<<>>, <<" ">>, <<"p", "d", "f">>}

Methods == {"POST", "OPTIONS", "GET"}

\* A request body: unreadable, not the JSON of {prompt}, or {prompt: p}
RequestBodies ==
    {[kind |-> "readerror", prompt |-> <<>>], [kind |-> "invalid", prompt |-> <<>>]}
    \cup {[kind |-> "json", prompt |-> p] : p \in Prompts}

\* The reply of the spec's example
ExampleReply ==
    JObj([main_query |-> JStr(<<"m", " ", "l">>),
          exact_phrases |-> JArr(<<JStr(<<"r", " ", "p">>)>>),
          site_filter |-> JStr(<<"a", ".", "o">>),
          file_type |-> JStr(<<"p", "d", "f">>),
          exclude_words |-> JArr(<<JStr(<<"b">>)>>),
          date_range |-> JStr(<<"2", "4">>)])

\* The JSON values a reply's content may hold
ReplyValues ==
    {ExampleReply,
     JObj([main_query |-> JStr(<<"m">>)]),
     JObj([main_query |-> JStr(<<"m">>), exact_phrases |-> JNull,
           exclude_words |-> JNull, other |-> JNum]),
     JObj([main_query |-> JStr(<<>>), exact_phrases |-> JArr(<<JStr(<<>>)>>),
           site_filter |-> JStr(<<>>), file_type |-> JStr(<<>>),
           exclude_words |-> JArr(<<JStr(<<>>)>>), date_range |-> JStr(<<>>)]),
     JObj([main_query |-> JStr(<<"m">>), exact_phrases |-> JStr(<<"r">>)]),
     JObj([main_query |-> JNum, site_filter |-> JStr(<<"a">>)]),
     JObj([main_query |-> JStr(<<"m">>), exclude_words |-> JArr(<<JNum>>)]),
     JNull,
     JArr(<<>>)}

\* The contents a choice may hold: a JSON value alone, white space or text
\* around one, two values, text alone, nothing
Contents ==
    {<<Json(v)>> : v \in ReplyValues}
    \cup {<<WS, Json(ExampleReply), WS>>, <<Text, Json(ExampleReply)>>,
          <<Json(ExampleReply), Text>>, <<Json(ExampleReply), Json(ExampleReply)>>,
          <<WS, Text, WS>>, <<>>}

\* The response bodies the model may send
Bodies ==
    {BadBody, ErrorBody(<<"q", "u", "o", "t", "a">>), ChoicesBody(<<>>)}
    \cup {ChoicesBody(<<c>>) : c \in Contents}
    \cup {ChoicesBody(<<<<Json(JNull)>>, <<Json(ExampleReply)>>>>)}

\* ------------------------------------------------------------------------
\* The state.
VARIABLES
    handler,   \* the SearchHandler all requests share
    pc,        \* where each request is
    origin,    \* who sent it: the front end or another client
    prompt,    \* the prompt analyzePromptWithOpenAI was called with, if it was
    ctxDone,   \* whether r.Context() is done (the client is gone)
    net,       \* how much of the model's response has arrived
    calls,     \* the calls of client.Do made for the request
    body,      \* the response body read, if one was
    intents,   \* the SearchIntent values allocated, by their place
    builds,    \* the calls of constructSearchQuery made for the request
    resp,      \* the responses written for the request
    ui         \* what the front end made of the response

vars ==
    <<handler, pc, origin, prompt, ctxDone, net, calls, body, intents, builds,
      resp, ui>>

\* main.go 16, 60-65, 253
NewSearchHandler == [openAIKey |-> "openapi-key", client |-> "http.Client"]

IntentSlotShared(r) == "r1"

\* main.go 140: var intent SearchIntent, a value of the call's own
IntentSlot(r) == r

Init ==
    /\ handler = NewSearchHandler
    /\ pc = [r \in Reqs |-> "idle"]
    /\ origin = [r \in Reqs |-> "none"]
    /\ prompt = [r \in Reqs |-> Nil]
    /\ ctxDone = [r \in Reqs |-> FALSE]
    /\ net = [r \in Reqs |-> "none"]
    /\ calls = [r \in Reqs |-> 0]
    /\ body = [r \in Reqs |-> Nil]
    /\ intents = [r \in Reqs |-> Nil]
    /\ builds = [r \in Reqs |-> 0]
    /\ resp = [r \in Reqs |-> <<>>]
    /\ ui = [r \in Reqs |-> Nil]

\* ------------------------------------------------------------------------
\* SearchHandler.handleSearch and analyzePromptWithOpenAI, step by step.  The
\* handler runs in a goroutine of its own and blocks twice: in client.Do and
\* in io.ReadAll of the response body.

CtxIgnored(r) == FALSE

\* main.go 103, 229: the request to the model carries r.Context(), so
\* client.Do and the reads of the body return once the context is done
CtxAborts(r) == ctxDone[r]

ExtractFailedFallsThrough(r, err) ==
    /\ resp' = [resp EXCEPT ![r] =
                   @ \o <<HttpError(500, "Error analyzing prompt", err),
                          HttpOK(constructSearchQuery(ZeroIntent), ZeroIntent)>>]
    /\ builds' = [builds EXCEPT ![r] = @ + 1]
    /\ pc' = [pc EXCEPT ![r] = "responded"]
    /\ UNCHANGED intents

\* main.go 230-234: analyzePromptWithOpenAI returned an error
ExtractFailed(r, err) ==
    /\ resp' = [resp EXCEPT ![r] =
                   Append(@, HttpError(500, "Error analyzing prompt", err))]
    /\ pc' = [pc EXCEPT ![r] = "responded"]
    /\ UNCHANGED <<intents, builds>>

\* main.go 140-154, 229: analyzePromptWithOpenAI returned its intent
ExtractSucceeded(r, intent) ==
    /\ intents' = [intents EXCEPT ![IntentSlot(r)] = Ptr(intent)]
    /\ pc' = [pc EXCEPT ![r] = "parsed"]
    /\ UNCHANGED <<resp, builds>>

\* The end of a request that never reaches analyzePromptWithOpenAI
Reject(r, response) ==
    /\ resp' = [resp EXCEPT ![r] = Append(@, response)]
    /\ pc' = [pc EXCEPT ![r] = "responded"]
    /\ UNCHANGED <<prompt, net, calls>>

\* main.go 195-229 and 68-111: a request arrives; handleSearch answers it at
\* once or calls analyzePromptWithOpenAI with req.Prompt, which sends its
\* request to the model
HandleEntry(r, from, method, rb) ==
    /\ pc[r] = "idle"
    /\ origin' = [origin EXCEPT ![r] = from]
    /\ IF method = "OPTIONS" THEN Reject(r, HttpEmpty)
       ELSE IF method # "POST"
       THEN Reject(r, HttpError(405, "Method not allowed", NoError))
       ELSE IF rb.kind = "readerror"
       THEN Reject(r, HttpError(400, "Error reading request body", NoError))
       ELSE IF rb.kind = "invalid"
       THEN Reject(r, HttpError(400, "Invalid request body", NoError))
       ELSE /\ prompt' = [prompt EXCEPT ![r] = Ptr(rb.prompt)]
            /\ calls' = [calls EXCEPT ![r] = @ + 1]
            /\ net' = [net EXCEPT ![r] = "pending"]
            /\ pc' = [pc EXCEPT ![r] = "calling"]
            /\ UNCHANGED resp
    /\ UNCHANGED <<handler, ctxDone, body, intents, builds, ui>>

\* SearchFrontend.js 9-21, 81-84: the Search button is disabled while the
\* prompt trims to nothing; a submit posts {prompt}
FrontendSubmit(r) ==
    \E p \in Prompts :
        /\ Trim(p) # <<>>
        /\ HandleEntry(r, "frontend", "POST", [kind |-> "json", prompt |-> p])

\* Any other client of POST /search
DirectRequest(r) ==
    \E method \in Methods, rb \in RequestBodies :
        HandleEntry(r, "direct", method, rb)

\* The model's response on its way: first its headers, then all of its body.
\* Nothing more arrives once the request is cancelled.
Network(r) ==
    /\ ~ctxDone[r]
    /\ \/ /\ pc[r] = "calling" /\ net[r] = "pending"
          /\ \E n \in {"failed", "headers"} : net' = [net EXCEPT ![r] = n]
       \/ /\ pc[r] = "reading" /\ net[r] = "headers"
          /\ \E n \in {"failed", "complete"} : net' = [net EXCEPT ![r] = n]
    /\ UNCHANGED <<handler, pc, origin, prompt, ctxDone, calls, body, intents,
                   builds, resp, ui>>

\* The client goes away while its request is being handled
Cancel(r) ==
    /\ pc[r] \in {"calling", "reading", "parsed"}
    /\ ~ctxDone[r]
    /\ ctxDone' = [ctxDone EXCEPT ![r] = TRUE]
    /\ UNCHANGED <<handler, pc, origin, prompt, net, calls, body, intents,
                   builds, resp, ui>>

DoFailedRetry(r) ==
    IF calls[r] < 2
    THEN /\ calls' = [calls EXCEPT ![r] = @ + 1]
         /\ net' = [net EXCEPT ![r] = "pending"]
         /\ UNCHANGED <<pc, resp, intents, builds>>
    ELSE /\ ExtractFailed(r, Errorf("error calling OpenAI"))
         /\ UNCHANGED <<calls, net>>

\* main.go 112-114: client.Do returned an error
DoFailed(r) ==
    /\ ExtractFailed(r, Errorf("error calling OpenAI"))
    /\ UNCHANGED <<calls, net>>

\* main.go 111-115: client.Do returns, with the response once its headers are
\* there, with an error once the call failed or the context is done
DoReturns(r) ==
    /\ pc[r] = "calling"
    /\ net[r] # "pending" \/ CtxAborts(r)
    /\ \E ok \in {b \in BOOLEAN : /\ b => net[r] = "headers"
                                  /\ ~b => net[r] = "failed" \/ CtxAborts(r)} :
          IF ok
          THEN /\ pc' = [pc EXCEPT ![r] = "reading"]
               /\ UNCHANGED <<net, calls, resp, intents, builds>>
          ELSE DoFailed(r)
    /\ UNCHANGED <<handler, origin, prompt, ctxDone, body, ui>>

\* main.go 118-154, 229-234: io.ReadAll returns, with the body once all of it
\* is there, with an error once the read failed or the context is done; the
\* body is parsed and analyzePromptWithOpenAI returns to handleSearch
ReadReturns(r) ==
    /\ pc[r] = "reading"
    /\ net[r] \in {"failed", "complete"} \/ CtxAborts(r)
    /\ \E ok \in {b \in BOOLEAN : /\ b => net[r] = "complete"
                                  /\ ~b => net[r] = "failed" \/ CtxAborts(r)} :
          IF ok
          THEN \E b \in Bodies :
                  /\ body' = [body EXCEPT ![r] = Ptr(b)]
                  /\ LET res == ParseResponse(b)
                     IN IF res.err # NoError
                        THEN ExtractFailed(r, res.err)
                        ELSE ExtractSucceeded(r, Deref(res.intent))
          ELSE /\ ExtractFailed(r, Errorf("error reading response body"))
               /\ UNCHANGED body
    /\ UNCHANGED <<handler, origin, prompt, ctxDone, net, calls, ui>>

\* main.go 236-247: the URL is built from the intent and both are written to
\* the client; the write may fail once the client is gone
Respond(r) ==
    /\ pc[r] = "parsed"
    /\ LET intent == Deref(intents[IntentSlot(r)])
           url == constructSearchQuery(intent)
       IN \E wrote \in (IF ctxDone[r] THEN BOOLEAN ELSE {TRUE}) :
             resp' = [resp EXCEPT ![r] =
                         Append(@, IF wrote THEN HttpOK(url, intent)
                                   ELSE HttpError(500, "Error encoding response",
                                                  NoError))]
    /\ builds' = [builds EXCEPT ![r] = @ + 1]
    /\ pc' = [pc EXCEPT ![r] = "responded"]
    /\ UNCHANGED <<handler, origin, prompt, ctxDone, net, calls, body, intents, ui>>

\* SearchFrontend.js 23-39: the front end shows the text of a response that
\* is not ok and opens the search_url of one that is
FrontendReceive(r) ==
    /\ origin[r] = "frontend" /\ pc[r] = "responded"
    /\ ~ctxDone[r] /\ ui[r] = Nil
    /\ LET res == resp[r][1]
       IN ui' = [ui EXCEPT ![r] =
                    Ptr(IF res.status # 200
                        THEN [error |-> res.msg, opened |-> Nil]
                        ELSE IF res.search_url # Nil
                        THEN [error |-> "", opened |-> res.search_url]
                        ELSE [error |-> "No search URL received", opened |-> Nil])]
    /\ UNCHANGED <<handler, pc, origin, prompt, ctxDone, net, calls, body,
                   intents, builds, resp>>

\* One step of one request
Step(r) ==
    \/ FrontendSubmit(r)
    \/ DirectRequest(r)
    \/ Network(r)
    \/ Cancel(r)
    \/ DoReturns(r)
    \/ ReadReturns(r)
    \/ Respond(r)
    \/ FrontendReceive(r)

Next == \E r \in Reqs : Step(r)

Spec == Init /\ [][Next]_vars

\* The goroutine of a request is scheduled: client.Do and io.ReadAll return
\* once they can.  The network and the clients owe nothing.
Fairness ==
    \A r \in Reqs :
        /\ WF_vars(DoReturns(r))
        /\ WF_vars(ReadReturns(r))

SpecLive == Init /\ [][Next]_vars /\ Fairness

\* ------------------------------------------------------------------------
\* constructSearchQuery over a wider set of intents: a request whose reply has
\* just been parsed, for each reply of six well-typed fields.

\* The most entries of exact_phrases and of exclude_words
MaxEntries == 2

MainQueries == {<<>>, <<"m", " ", "l">>, <<"-", Quote>>}

PhraseEntries == {<<>>, <<"r", " ", "p">>, <<"%", "&">>}

SiteFilters == {<<>>, <<"a", ".", "o">>}

FileTypes == {<<>>, <<"p", "d", "f">>}

WordEntries == {<<>>, <<"b">>, <<"+", "=">>}

DateRanges == {<<>>, <<"2", "4">>}

SeqsUpTo(E, n) == UNION {[1..k -> E] : k \in 0..n}

Strings(list) == JArr([i \in 1..Len(list) |-> JStr(list[i])])

\* The replies of six well-typed fields
BuildReplies ==
    {JObj([main_query |-> JStr(m), exact_phrases |-> Strings(ps),
           site_filter |-> JStr(sf), file_type |-> JStr(ft),
           exclude_words |-> Strings(ws), date_range |-> JStr(d)]) :
        m \in MainQueries, ps \in SeqsUpTo(PhraseEntries, MaxEntries),
        sf \in SiteFilters, ft \in FileTypes,
        ws \in SeqsUpTo(WordEntries, MaxEntries), d \in DateRanges}

\* Request r1 after ReadReturns has read and parsed such a reply
InitBuild ==
    \E v \in BuildReplies :
        LET b == ChoicesBody(<<<<Json(v)>>>>)
        IN /\ handler = NewSearchHandler
           /\ pc = [r \in Reqs |-> IF r = "r1" THEN "parsed" ELSE "idle"]
           /\ origin = [r \in Reqs |-> IF r = "r1" THEN "direct" ELSE "none"]
           /\ prompt = [r \in Reqs |-> IF r = "r1" THEN Ptr(<<"p", "d", "f">>) ELSE Nil]
           /\ ctxDone = [r \in Reqs |-> FALSE]
           /\ net = [r \in Reqs |-> IF r = "r1" THEN "complete" ELSE "none"]
           /\ calls = [r \in Reqs |-> IF r = "r1" THEN 1 ELSE 0]
           /\ body = [r \in Reqs |-> IF r = "r1" THEN Ptr(b) ELSE Nil]
           /\ intents = [r \in Reqs |->
                            IF r = IntentSlot("r1") THEN ParseResponse(b).intent ELSE Nil]
           /\ builds = [r \in Reqs |-> 0]
           /\ resp = [r \in Reqs |-> <<>>]
           /\ ui = [r \in Reqs |-> Nil]

NextBuild == \E r \in Reqs : Respond(r)

SpecBuild == InitBuild /\ [][NextBuild]_vars

\* ------------------------------------------------------------------------
\* What the claims speak of.

\* The request has been answered
Responded(r) == pc[r] = "responded"

\* The response the client receives
Response(r) == resp[r][1]

\* The request ended with the URL and the intent
RespondedOK(r) ==
    Responded(r) /\ Len(resp[r]) > 0 /\ Response(r).search_url # Nil

\* The intent the request's call of analyzePromptWithOpenAI returned
IntentOf(r) == Deref(intents[r])

\* The character %XX stands for
CharOfHex(h1, h2) ==
    CASE <<h1, h2>> = <<"2", "2">> -> Quote
      [] <<h1, h2>> = <<"2", "5">> -> "%"
      [] <<h1, h2>> = <<"2", "6">> -> "&"
      [] <<h1, h2>> = <<"2", "B">> -> "+"
      [] <<h1, h2>> = <<"3", "A">> -> ":"
      [] <<h1, h2>> = <<"3", "D">> -> "="

\* The decoding of a query component: + is a space, %XX a character
RECURSIVE QueryUnescape(_)
QueryUnescape(s) ==
    IF Len(s) = 0 THEN <<>>
    ELSE IF Head(s) = "+" THEN <<" ">> \o QueryUnescape(Tail(s))
    ELSE IF Head(s) = "%"
    THEN <<CharOfHex(s[2], s[3])>> \o QueryUnescape(SubSeq(s, 4, Len(s)))
    ELSE <<Head(s)>> \o QueryUnescape(Tail(s))

\* The URL is the base URL with the single parameter q
HasOnlyQ(url) ==
    /\ Len(url) >= 4
    /\ SubSeq(url, 1, 4) = <<"https://www.google.com/search", "?", "q", "=">>
    /\ \A i \in 5..Len(url) : url[i] \notin {"&", "?", "=", " "}

\* The decoded value of the URL's q parameter
DecodedQ(url) == QueryUnescape(SubSeq(url, 5, Len(url)))

\* The clauses the spec lists, in its order, each with the field text it is
\* made from: main_query, "<phrase>"..., site:, filetype:, -<word>..., after:
Clause(pre, txt, post) == [txt |-> txt, clause |-> pre \o txt \o post]

SpecClauses(intent) ==
    <<Clause(<<>>, intent.MainQuery, <<>>)>>
    \o [i \in 1..Len(intent.ExactPhrases.elems) |->
           Clause(<<Quote>>, intent.ExactPhrases.elems[i], <<Quote>>)]
    \o <<Clause(<<"s", "i", "t", "e", ":">>, intent.SiteFilter, <<>>),
         Clause(<<"f", "i", "l", "e", "t", "y", "p", "e", ":">>, intent.FileType, <<>>)>>
    \o [i \in 1..Len(intent.ExcludeWords.elems) |->
           Clause(<<"-">>, intent.ExcludeWords.elems[i], <<>>)]
    \o <<Clause(<<"a", "f", "t", "e", "r", ":">>, intent.DateRange, <<>>)>>

\* The clauses of the non-empty fields and entries, joined by single spaces
RECURSIVE SpaceJoined(_)
SpaceJoined(cs) ==
    IF Len(cs) = 0 THEN <<>>
    ELSE IF Len(cs) = 1 THEN cs[1].clause
    ELSE cs[1].clause \o <<" ">> \o SpaceJoined(Tail(cs))

ExpectedQ(intent) ==
    SpaceJoined(SelectSeq(SpecClauses(intent), LAMBDA c : c.txt # <<>>))

\* C1: for every intent, the decoded q of the URL constructSearchQuery builds
\* is the single-space join of the clauses of the non-empty fields in the
\* order main_query, "<phrase>" per exact phrase, site:, filetype:, -<word> per
\* exclude word, after:, none reordered, duplicated or dropped.
C1_ClauseOrder ==
    \A r \in Reqs :
        RespondedOK(r) =>
            /\ HasOnlyQ(Deref(Response(r).search_url))
            /\ DecodedQ(Deref(Response(r).search_url)) = ExpectedQ(IntentOf(r))

\* The spec's example, with its texts shortened: every clause is there
C1_Witness ==
    \E r \in Reqs :
        /\ RespondedOK(r)
        /\ IntentOf(r).MainQuery = <<"m", " ", "l">>
        /\ IntentOf(r).ExactPhrases.elems = <<<<"r", " ", "p">>>>
        /\ IntentOf(r).ExcludeWords.elems = <<<<"b">>>>
        /\ DecodedQ(Deref(Response(r).search_url)) =
              <<"m", " ", "l", " ", Quote, "r", " ", "p", Quote, " ",
                "s", "i", "t", "e", ":", "a", ".", "o", " ",
                "f", "i", "l", "e", "t", "y", "p", "e", ":", "p", "d", "f", " ",
                "-", "b", " ", "a", "f", "t", "e", "r", ":", "2", "4">>

\* The intent without the empty entries of its two lists
WithoutEmptyEntries(intent) ==
    [intent EXCEPT
        !.ExactPhrases.elems = SelectSeq(@, LAMBDA e : e # <<>>),
        !.ExcludeWords.elems = SelectSeq(@, LAMBDA e : e # <<>>)]

AllEmpty(intent) ==
    /\ intent.MainQuery = <<>> /\ intent.SiteFilter = <<>>
    /\ intent.FileType = <<>> /\ intent.DateRange = <<>>
    /\ \A i \in 1..Len(intent.ExactPhrases.elems) : intent.ExactPhrases.elems[i] = <<>>
    /\ \A i \in 1..Len(intent.ExcludeWords.elems) : intent.ExcludeWords.elems[i] = <<>>

\* How often character c occurs in text s
RECURSIVE Count(_, _)
Count(c, s) ==
    IF Len(s) = 0 THEN 0 ELSE (IF Head(s) = c THEN 1 ELSE 0) + Count(c, Tail(s))

RECURSIVE CountIn(_, _)
CountIn(c, list) ==
    IF Len(list) = 0 THEN 0 ELSE Count(c, Head(list)) + CountIn(c, Tail(list))

NonEmpty(list) == Len(SelectSeq(list, LAMBDA e : e # <<>>))

\* The characters c of q that come from the texts of the fields
FromTexts(c, intent) ==
    Count(c, intent.MainQuery) + CountIn(c, intent.ExactPhrases.elems)
    + Count(c, intent.SiteFilter) + Count(c, intent.FileType)
    + CountIn(c, intent.ExcludeWords.elems) + Count(c, intent.DateRange)

\* C9: an empty entry of exact_phrases or exclude_words makes no clause: the
\* URL is the one of the intent without its empty entries, q has two quotes
\* for each non-empty phrase and one - for each non-empty word beyond those
\* of the texts themselves, and an intent with nothing in it gives the base
\* URL with an empty q.
C9_EmptyEntriesSkipped ==
    \A r \in Reqs :
        RespondedOK(r) =>
            LET i == IntentOf(r)
                url == Deref(Response(r).search_url)
                q == DecodedQ(url)
            IN /\ url = constructSearchQuery(WithoutEmptyEntries(i))
               /\ Count(Quote, q) =
                     2 * NonEmpty(i.ExactPhrases.elems) + FromTexts(Quote, i)
               /\ Count("-", q) = NonEmpty(i.ExcludeWords.elems) + FromTexts("-", i)
               /\ AllEmpty(i) =>
                     url = <<"https://www.google.com/search", "?", "q", "=">>

\* An empty phrase before a phrase, an empty word after a word
C9_Witness ==
    \E r \in Reqs :
        /\ RespondedOK(r)
        /\ Len(IntentOf(r).ExactPhrases.elems) = 2
        /\ IntentOf(r).ExactPhrases.elems[1] = <<>>
        /\ IntentOf(r).ExactPhrases.elems[2] # <<>>
        /\ Len(IntentOf(r).ExcludeWords.elems) = 2
        /\ IntentOf(r).ExcludeWords.elems[1] # <<>>
        /\ IntentOf(r).ExcludeWords.elems[2] = <<>>

\* ------------------------------------------------------------------------
\* Claims about the pipeline.

\* handleSearch called analyzePromptWithOpenAI
ExtractCalled(r) == prompt[r] # Nil

\* analyzePromptWithOpenAI returned to handleSearch
ExtractReturned(r) == ExtractCalled(r) /\ pc[r] \in {"parsed", "responded"}

\* It returned an error and no intent
ExtractFailure(r) == ExtractReturned(r) /\ intents[r] = Nil

\* It returned an intent
ExtractSuccess(r) == ExtractReturned(r) /\ intents[r] # Nil

\* C2: constructSearchQuery is called only after analyzePromptWithOpenAI has
\* returned an intent; when it fails, the request ends with one error
\* response, no call of constructSearchQuery, and no URL or intent for the
\* client, whose front end then opens nothing.
C2_BuildOnlyAfterExtract ==
    \A r \in Reqs :
        /\ builds[r] > 0 => ExtractSuccess(r)
        /\ (ExtractFailure(r) /\ Responded(r)) =>
              /\ Len(resp[r]) = 1
              /\ Response(r).status = 500
              /\ Response(r).msg = "Error analyzing prompt"
              /\ Response(r).cause # NoError
              /\ Response(r).search_url = Nil
              /\ Response(r).intent = Nil
              /\ builds[r] = 0
              /\ ui[r] # Nil => Deref(ui[r]).opened = Nil /\ Deref(ui[r]).error # ""

\* A failed extraction whose error the front end shows
C2_Witness ==
    \E r \in Reqs :
        /\ ExtractFailure(r) /\ Responded(r)
        /\ body[r] # Nil
        /\ ui[r] # Nil

\* A JSON object has the six keys, its lists as arrays, its texts as strings
SixFields(v) ==
    /\ v.type = "object"
    /\ IntentKeys \subseteq DOMAIN v.val
    /\ \A k \in IntentKeys :
          k \in DOMAIN v.val =>
              v.val[k].type = (IF k \in ListKeys THEN "array" ELSE "string")

\* C3: after a successful extraction the intent has its six fields, the two
\* lists never nil, both as constructSearchQuery gets it and as the client
\* gets it beside the URL.
C3_AllFieldsPresent ==
    \A r \in Reqs :
        /\ ExtractSuccess(r) =>
              /\ ~IntentOf(r).ExactPhrases.isNil
              /\ ~IntentOf(r).ExcludeWords.isNil
        /\ RespondedOK(r) => SixFields(Deref(Response(r).intent))

\* The kind of ExtractionError an error of analyzePromptWithOpenAI is
Kind(err) ==
    CASE err.msg \in {"error calling OpenAI", "error reading response body"} ->
            "Transport"
      [] err.msg = "OpenAI API error" -> "ProviderRejected"
      [] err.msg = "no response choices from OpenAI" -> "EmptyResponse"
      [] err.msg = "error parsing intent JSON" -> "MalformedIntent"
      [] OTHER -> "none"

FourKinds == {"Transport", "ProviderRejected", "EmptyResponse", "MalformedIntent"}

\* The error of a failed extraction, as the response carries it
ErrorOf(r) == Response(r).cause

\* The kinds by their causes, for the bodies that decode as a response
KindByCause(r) ==
    LET e == ErrorOf(r)
    IN /\ body[r] = Nil =>
              /\ Kind(e) = "Transport"
              /\ net[r] = "failed" \/ ctxDone[r]
       /\ (body[r] # Nil /\ Deref(body[r]).valid) =>
              LET b == Deref(body[r])
              IN /\ b.error # Nil =>
                        Kind(e) = "ProviderRejected" /\ e.provider = Deref(b.error)
                 /\ (b.error = Nil /\ Len(b.choices) = 0) => Kind(e) = "EmptyResponse"
                 /\ (b.error = Nil /\ Len(b.choices) > 0) =>
                        /\ Kind(e) = "MalformedIntent"
                        /\ e.content = TrimSpace(b.choices[1])

\* C4 as claimed: every failed extraction has one of the four kinds, by its
\* cause.
C4_FourKindsOnly ==
    \A r \in Reqs :
        (ExtractFailure(r) /\ Responded(r)) =>
            /\ Kind(ErrorOf(r)) \in FourKinds
            /\ KindByCause(r)

\* C4 as amended: every failed extraction reports one error, by its cause:
\* the four kinds as claimed (MalformedIntent with the trimmed content), and
\* for a response body that does not decode as a response a fifth error,
\* "error parsing OpenAI response", of none of the four kinds.
C4_KindsByCause ==
    \A r \in Reqs :
        (ExtractFailure(r) /\ Responded(r)) =>
            /\ Len(resp[r]) = 1
            /\ KindByCause(r)
            /\ (body[r] # Nil /\ ~Deref(body[r]).valid) <=>
                  ErrorOf(r).msg = "error parsing OpenAI response"
            /\ Kind(ErrorOf(r)) \in FourKinds
                  \/ ErrorOf(r).msg = "error parsing OpenAI response"

\* A provider's error, passed through, and a body that is no response
C4_Witness ==
    /\ \E r \in Reqs :
          /\ ExtractFailure(r) /\ Responded(r)
          /\ body[r] # Nil
          /\ Deref(body[r]).error # Nil
          /\ ErrorOf(r).provider = <<"q", "u", "o", "t", "a">>
    /\ \E r \in Reqs :
          /\ ExtractFailure(r) /\ Responded(r)
          /\ body[r] = Ptr(BadBody)
          /\ ErrorOf(r).msg = "error parsing OpenAI response"

\* The content of the reply a request got, when its body had one
HasContent(r) ==
    /\ body[r] # Nil
    /\ Deref(body[r]).valid
    /\ Deref(body[r]).error = Nil
    /\ Len(Deref(body[r]).choices) > 0

ContentOf(r) == Deref(body[r]).choices[1]

\* A value a field of the schema accepts: null anywhere, a string for a text,
\* an array of strings (or nulls) for a list
WellTyped(k, v) ==
    \/ v.type = "null"
    \/ k \in StringKeys /\ v.type = "string"
    \/ k \in ListKeys /\ v.type = "array"
          /\ \A i \in 1..Len(v.val) : v.val[i].type \in {"string", "null"}

\* After trimming, the content is exactly one JSON value
OneValue(content) ==
    LET t == TrimSpace(content) IN Len(t) = 1 /\ t[1].type = "json"

ValueOf(content) == TrimSpace(content)[1].val

\* ... and that value is an object with its schema fields well typed
StrictObject(content) ==
    /\ OneValue(content)
    /\ ValueOf(content).type = "object"
    /\ \A k \in IntentKeys \cap DOMAIN ValueOf(content).val :
          WellTyped(k, ValueOf(content).val[k])

\* A failed parse: MalformedIntent, and no intent at all for anyone
NoIntentAtAll(r) ==
    /\ intents[r] = Nil
    /\ Responded(r) =>
          /\ Kind(ErrorOf(r)) = "MalformedIntent"
          /\ Response(r).intent = Nil /\ Response(r).search_url = Nil
          /\ builds[r] = 0

\* C5 as claimed: the extraction succeeds only on a reply that is, once
\* trimmed, exactly one JSON object with well-typed fields; any other reply
\* fails with MalformedIntent and yields no intent.
C5_OnlyObjects ==
    \A r \in Reqs :
        (ExtractReturned(r) /\ HasContent(r)) =>
            IF StrictObject(ContentOf(r)) THEN ExtractSuccess(r) ELSE NoIntentAtAll(r)

\* C5 as amended: the same, but the reply that is exactly the JSON value null
\* is accepted too and yields the intent with every field empty.
C5_ObjectsOrNull ==
    \A r \in Reqs :
        (ExtractReturned(r) /\ HasContent(r)) =>
            IF StrictObject(ContentOf(r)) THEN ExtractSuccess(r)
            ELSE IF OneValue(ContentOf(r)) /\ ValueOf(ContentOf(r)).type = "null"
            THEN ExtractSuccess(r) /\ AllEmpty(IntentOf(r))
                 /\ IntentOf(r).ExactPhrases.elems = <<>>
                 /\ IntentOf(r).ExcludeWords.elems = <<>>
            ELSE NoIntentAtAll(r)

\* Prose before the object: refused, and the error carries the content
C5_Witness ==
    \E r \in Reqs :
        /\ Responded(r) /\ HasContent(r)
        /\ ContentOf(r) = <<Text, Json(ExampleReply)>>
        /\ Kind(ErrorOf(r)) = "MalformedIntent"
        /\ intents[r] = Nil

\* C6: analyzePromptWithOpenAI is only ever called with a non-empty prompt.
C6_PromptNeverEmpty ==
    \A r \in Reqs : ExtractCalled(r) => Deref(prompt[r]) # <<>>

\* The model's response has not all arrived
InFlight(r) ==
    pc[r] \in {"calling", "reading"} /\ net[r] \in {"pending", "headers"}

\* The request ended with a Transport error and no intent
TransportFailure(r) ==
    /\ Responded(r) /\ ExtractFailure(r)
    /\ Len(resp[r]) = 1
    /\ Kind(ErrorOf(r)) = "Transport"
    /\ Response(r).search_url = Nil /\ Response(r).intent = Nil

\* C7: once the caller has cancelled while the call of the model is in
\* flight (the response not there yet, or its body not all there), the
\* extraction returns, with a Transport error and no intent.
C7_CancelEndsCall ==
    \A r \in Reqs : (InFlight(r) /\ ctxDone[r]) ~> TransportFailure(r)

\* A call cancelled before anything arrived, ended with a Transport error
C7_Witness ==
    \E r \in Reqs :
        /\ ctxDone[r] /\ net[r] = "pending"
        /\ TransportFailure(r)

\* C8: a request makes at most one call of the model, and exactly one when
\* analyzePromptWithOpenAI is called; no failure is followed by a second.
C8_OneCall ==
    \A r \in Reqs :
        /\ calls[r] <= 1
        /\ ExtractCalled(r) <=> calls[r] = 1
        /\ (ExtractFailure(r) /\ Responded(r)) => calls[r] = 1 /\ Len(resp[r]) = 1

\* A call that failed in transport
C8_Witness ==
    \E r \in Reqs :
        /\ ExtractFailure(r) /\ Responded(r)
        /\ ErrorOf(r).msg = "error calling OpenAI"
        /\ net[r] = "failed"
        /\ calls[r] = 1

\* What a request's own response body leads to
OwnOutcome(r) == ParseResponse(Deref(body[r]))

\* C10: under every interleaving of the requests, the handler stays as it
\* was made, and each request's URL and intent, or its error, are those of
\* its own response body.
C10_Independent ==
    /\ handler = NewSearchHandler
    /\ \A r \in Reqs :
          /\ RespondedOK(r) =>
                /\ body[r] # Nil /\ OwnOutcome(r).err = NoError
                /\ Response(r) =
                      HttpOK(constructSearchQuery(Deref(OwnOutcome(r).intent)),
                             Deref(OwnOutcome(r).intent))
          /\ (Responded(r) /\ ExtractFailure(r) /\ body[r] # Nil) =>
                ErrorOf(r) = OwnOutcome(r).err

\* Two requests answered, each with its own URL
C10_Witness ==
    /\ RespondedOK("r1") /\ RespondedOK("r2")
    /\ Response("r1").search_url # Response("r2").search_url
    /\ Response("r1").intent # Response("r2").intent

====
